---- MODULE Spec2Model ----
(***************************************************************************)
(* Erc1155Service (packages/plugins/erc1155/src/erc1155.service.ts).       *)
(*                                                                         *)
(* The service holds a token list fixed at construction and offers seven   *)
(* async operations.  getTokenInfoBySymbol scans the list; the other six   *)
(* resolve addresses through the wallet client and then issue one read or  *)
(* one sendTransaction.  The wallet client is the environment: each of its *)
(* answers (a value or a failure) is a nondeterministic choice.            *)
(***************************************************************************)
EXTENDS Integers, Sequences, FiniteSets, TLC

VARIABLES
    ctorArg,    \* the argument { tokens? } given to the constructor
    tokens,     \* this.tokens
    wallet,     \* the wallet client's chain: what getChain() does when called
    pc,         \* per invocation: the await it is suspended at
    op,         \* per invocation: the operation running
    params,     \* per invocation: the parameters object
    calls,      \* per invocation: the wallet-client calls issued, with their answers
    result      \* per invocation: what the returned promise settled to

vars == <<ctorArg, tokens, wallet, pc, op, params, calls, result>>

----------------------------------------------------------------------------
(* Bounds of the model *)

\* longest token list given to the constructor
MaxTokens == 2
\* longest owners / ids / values array given to a batch operation
MaxBatch == 2
\* longest sequence the wallet client's read answers a batch read with
MaxRead == 2
\* longest array, and longest read answer, where two invocations run at once
ConcBatch == 1

----------------------------------------------------------------------------
(* Strings that the code converts: a symbol is a sequence of characters *)

\* String.prototype.toLowerCase, character by character
LowerChar(c) ==
    CASE c = "G" -> "g"
      [] c = "S" -> "s"
      [] OTHER -> c

toLowerCase(s) == [i \in DOMAIN s |-> LowerChar(s[i])]

\* symbols a descriptor may be registered under
RegisteredSymbols == { <<"G", "G">>, <<"g", "g">>, <<"S", "S">> }

\* symbols a caller may ask for
RequestedSymbols ==
    { <<"G", "G">>, <<"G", "g">>, <<"g", "g">>, <<"S", "S">>, <<"s", "s">> }

Undefined == "<undefined>"

ChainIds == {1, 2}

EmptyChains == [c \in {} |-> [contractAddress |-> ""]]

\* the chain maps a descriptor may carry
ChainMaps ==
    { EmptyChains,
      [c \in {1} |-> [contractAddress |-> ""]],
      [c \in {1} |-> [contractAddress |-> "0xAAA"]],
      [c \in {1, 2} |-> [contractAddress |-> IF c = 1 THEN "0xAAA" ELSE "0xBBB"]] }

TokenIds == {1, 2}

MkToken(sym, id, chains) ==
    [ symbol      |-> sym,
      id          |-> id,
      decimals    |-> IF id = 1 THEN 0 ELSE 18,
      name        |-> IF id = 1 THEN "Gold Coin" ELSE "Silver Coin",
      uri         |-> IF id = 1 THEN "ipfs://one" ELSE "ipfs://two",
      totalSupply |-> 100 * id,
      chains      |-> chains ]

Tokens == { MkToken(s, i, ch) : s \in RegisteredSymbols, i \in TokenIds, ch \in ChainMaps }

SeqsUpTo(S, n) == UNION { [1..k -> S] : k \in 0..n }

Registries == SeqsUpTo(Tokens, MaxTokens)

\* the registry lists used where the registry is not what is examined
GoldToken == MkToken(<<"G", "G">>, 1, [c \in {1} |-> [contractAddress |-> "0xAAA"]])
ExampleRegistries == { <<GoldToken>> }

WalletErrors == { "Error: rpc unavailable", "Error: unknown name" }

Procs == { "p1", "p2" }

----------------------------------------------------------------------------
(* Settled promises *)

Returned(v) == [ok |-> TRUE, value |-> v, error |-> <<>>]
Thrown(msg) == [ok |-> FALSE, value |-> <<>>, error |-> msg]
NoResult == [ok |-> FALSE, value |-> <<>>, error |-> <<>>]

ChainToString(c) == IF c = 1 THEN "1" ELSE IF c = 2 THEN "2" ELSE "?"

\* what walletClient.getChain() does: returns { id } or throws
ChainOutcomes ==
    { [ok |-> TRUE, id |-> c, err |-> ""] : c \in ChainIds }
        \cup { [ok |-> FALSE, id |-> 0, err |-> e] : e \in WalletErrors }

----------------------------------------------------------------------------
(* constructor *)

Construct(arg) == IF arg.given THEN arg.tokens ELSE <<>>

----------------------------------------------------------------------------
(* getTokenInfoBySymbol *)

\* variant: the comparison lower-cases both sides
SymbolMatches_IgnoreCase(token, symbol) ==
    toLowerCase(symbol) = toLowerCase(token.symbol)

\* [token.symbol, token.symbol.toLowerCase()].includes(parameters.symbol)
SymbolMatches(token, symbol) ==
    symbol \in { token.symbol, toLowerCase(token.symbol) }

\* variant: findLast in place of find
FindToken_Last(list, symbol) ==
    IF \E i \in DOMAIN list : SymbolMatches(list[i], symbol)
    THEN CHOOSE i \in DOMAIN list :
            /\ SymbolMatches(list[i], symbol)
            /\ \A j \in DOMAIN list : SymbolMatches(list[j], symbol) => j <= i
    ELSE 0

\* Array.prototype.find: the index of the first match, 0 for undefined
FindToken(list, symbol) ==
    IF \E i \in DOMAIN list : SymbolMatches(list[i], symbol)
    THEN CHOOSE i \in DOMAIN list :
            /\ SymbolMatches(list[i], symbol)
            /\ \A j \in DOMAIN list : SymbolMatches(list[j], symbol) => i <= j
    ELSE 0

\* token.chains[chain.id]?.contractAddress
ContractAddressOf(token, chainId) ==
    IF chainId \in DOMAIN token.chains
    THEN token.chains[chainId].contractAddress
    ELSE Undefined

\* variant: only a missing address is refused (contractAddress === undefined)
Falsy_UndefinedOnly(x) == x = Undefined

Falsy(x) == x = Undefined \/ x = ""

NotFoundMsg(symbol) == <<"Token with symbol ", symbol, " not found">>
NotOnChainMsg(symbol, chainId) ==
    <<"Token with symbol ", symbol, " not found on chain ", ChainToString(chainId)>>

\* variant: the descriptor is spread into the result ({ ...token, contractAddress })
TokenInfo_Spread(token, contractAddress) ==
    [ f \in DOMAIN token \cup {"contractAddress"} |->
        IF f = "contractAddress" THEN contractAddress ELSE token[f] ]

TokenInfo(token, contractAddress) ==
    [ symbol          |-> token.symbol,
      contractAddress |-> contractAddress,
      id              |-> token.id,
      decimals        |-> token.decimals,
      name            |-> token.name,
      uri             |-> token.uri,
      totalSupply     |-> token.totalSupply ]

\* the body of getTokenInfoBySymbol, given what getChain() does if it is called
LookupResult(list, symbol, chain) ==
    LET i == FindToken(list, symbol) IN
    IF i = 0 THEN Thrown(NotFoundMsg(symbol))
    ELSE IF ~chain.ok THEN Thrown(<<chain.err>>)
    ELSE LET contractAddress == ContractAddressOf(list[i], chain.id) IN
         IF Falsy(contractAddress) THEN Thrown(NotOnChainMsg(symbol, chain.id))
         ELSE Returned(TokenInfo(list[i], contractAddress))

\* the wallet-client calls the body makes
LookupCalls(list, symbol, chain) ==
    IF FindToken(list, symbol) = 0 THEN <<>>
    ELSE << [fn |-> "getChain", args |-> <<>>, done |-> TRUE, ok |-> chain.ok,
             ret |-> IF chain.ok THEN chain.id ELSE chain.err] >>

getTokenInfoBySymbol(p, symbol) ==
    /\ pc[p] = "idle"
    /\ op' = [op EXCEPT ![p] = "getTokenInfoBySymbol"]
    /\ params' = [params EXCEPT ![p] = [symbol |-> symbol]]
    /\ calls' = [calls EXCEPT ![p] = LookupCalls(tokens, symbol, wallet)]
    /\ result' = [result EXCEPT ![p] = LookupResult(tokens, symbol, wallet)]
    /\ pc' = [pc EXCEPT ![p] = "done"]
    /\ UNCHANGED <<ctorArg, tokens, wallet>>

\* the caller takes the settled promise; the invocation's frame is gone
Settle(p) ==
    /\ pc[p] = "done"
    /\ pc' = [pc EXCEPT ![p] = "idle"]
    /\ op' = [op EXCEPT ![p] = "none"]
    /\ params' = [params EXCEPT ![p] = [symbol |-> <<>>]]
    /\ calls' = [calls EXCEPT ![p] = <<>>]
    /\ result' = [result EXCEPT ![p] = NoResult]
    /\ UNCHANGED <<ctorArg, tokens, wallet>>

----------------------------------------------------------------------------
(* The wallet client's answers and the values the operations pass on *)

Addresses == { "0xA11CE", "0xB0B" }
Names == { "alice.eth", "0xB0B" }
TokenAddresses == { "0x1155" }
Amounts == { 7 }
Hashes == { "0xhash" }

\* a call's optional data parameter: left out, or a byte string (possibly empty)
NoData == [given |-> FALSE, v |-> ""]
DataOptions == { NoData, [given |-> TRUE, v |-> ""], [given |-> TRUE, v |-> "0xab"] }

\* raw contract values as the wallet client hands them over
RawValues == { [type |-> "bigint", n |-> 0], [type |-> "bigint", n |-> 5] }

JsBoolean(b) == [type |-> "boolean", v |-> b]

\* Number(x)
Number(raw) == [type |-> "number", n |-> raw.n]

Failures(I) == { [ok |-> FALSE, ret |-> e] : e \in I.errors }

\* resolveAddress(x): an address, or a rejection
ResolveAnswers(I) == { [ok |-> TRUE, ret |-> a] : a \in I.addresses } \cup Failures(I)

\* read(balanceOf): { value }, or a rejection
BalanceAnswers(I) ==
    { [ok |-> TRUE, ret |-> [type |-> "object", value |-> v]] : v \in I.raw } \cup Failures(I)

\* read(balanceOfBatch): { value: [...] }, or a rejection
BatchAnswers(I) ==
    { [ok |-> TRUE, ret |-> [type |-> "object", value |-> vs]] : vs \in SeqsUpTo(I.raw, I.read) }
        \cup Failures(I)

\* read(isApprovedForAll): { value: boolean }, or a rejection
ApprovedAnswers(I) ==
    { [ok |-> TRUE, ret |-> [type |-> "object", value |-> JsBoolean(b)]] : b \in BOOLEAN }
        \cup Failures(I)

\* sendTransaction(...): { hash }, or a rejection
SendAnswers(I) == { [ok |-> TRUE, ret |-> [type |-> "object", hash |-> h]] : h \in Hashes } \cup Failures(I)

Call(fn, args) == [fn |-> fn, args |-> args, done |-> FALSE, ok |-> FALSE, ret |-> <<>>]

Answered(call, ans) == [call EXCEPT !.done = TRUE, !.ok = ans.ok, !.ret = ans.ret]

AnswerLast(cs, ans) == [cs EXCEPT ![Len(cs)] = Answered(@, ans)]

\* throw Error(`<prefix>${error}`)
Wrap(prefix, error) == Thrown(<<prefix, error>>)

\* an invocation starts: the frame of operation o with its parameters
Enter(p, o, prm, first) ==
    /\ pc[p] = "idle"
    /\ op' = [op EXCEPT ![p] = o]
    /\ params' = [params EXCEPT ![p] = prm]
    /\ calls' = [calls EXCEPT ![p] = first]
    /\ UNCHANGED <<ctorArg, tokens, wallet, result>>

\* the awaited call is answered and the body goes on to issue the call next
Proceed(p, ans, next, at) ==
    /\ calls' = [calls EXCEPT ![p] = Append(AnswerLast(@, ans), next)]
    /\ pc' = [pc EXCEPT ![p] = at]
    /\ UNCHANGED <<ctorArg, tokens, wallet, op, params, result>>

\* the awaited call is answered and the body returns or throws
Finish(p, ans, res) ==
    /\ calls' = [calls EXCEPT ![p] = AnswerLast(@, ans)]
    /\ result' = [result EXCEPT ![p] = res]
    /\ pc' = [pc EXCEPT ![p] = "done"]
    /\ UNCHANGED <<ctorArg, tokens, wallet, op, params>>

At(p, o, at) == op[p] = o /\ pc[p] = at

----------------------------------------------------------------------------
(* balanceOf *)

BalanceOfParams(I) ==
    [tokenAddress : TokenAddresses, owner : I.names, id : I.ids]

BalanceOfFailed(error) == Wrap("Failed to fetch balance: ", error)

balanceOf(p, prm) ==
    /\ Enter(p, "balanceOf", prm, << Call("resolveAddress", <<prm.owner>>) >>)
    /\ pc' = [pc EXCEPT ![p] = "owner"]

balanceOf_owner(p, ans) ==
    /\ At(p, "balanceOf", "owner")
    /\ IF ans.ok
       THEN Proceed(p, ans,
                    Call("read", [address |-> params[p].tokenAddress,
                                  functionName |-> "balanceOf",
                                  args |-> <<ans.ret, params[p].id>>]),
                    "read")
       ELSE Finish(p, ans, BalanceOfFailed(ans.ret))

\* variant: a failed read is issued once more instead of being thrown
balanceOf_read_Retry(p, ans) ==
    /\ At(p, "balanceOf", "read")
    /\ IF ans.ok
       THEN Finish(p, ans, Returned(Number(ans.ret.value)))
       ELSE Proceed(p, ans, Call("read", calls[p][Len(calls[p])].args), "read")

balanceOf_read(p, ans) ==
    /\ At(p, "balanceOf", "read")
    /\ IF ans.ok
       THEN Finish(p, ans, Returned(Number(ans.ret.value)))
       ELSE Finish(p, ans, BalanceOfFailed(ans.ret))

----------------------------------------------------------------------------
(* balanceOfBatch *)

BalanceOfBatchParams(I) ==
    [tokenAddress : TokenAddresses,
     owners : SeqsUpTo(I.names, I.batch),
     ids : SeqsUpTo(I.batchIds, I.batch)]

BatchFailed(error) == Wrap("Failed to fetch batch balances: ", error)

\* the resolveAddress calls of the owners are the first Len(owners) calls
OwnerCalls(p) == 1..Len(params[p].owners)

\* variant: Promise.any in place of Promise.all
AllResolved_Any(p) ==
    \/ OwnerCalls(p) = {}
    \/ \E i \in OwnerCalls(p) : calls[p][i].done /\ calls[p][i].ok

\* Promise.all: fulfilled once every promise is, with the values in the order given
AllResolved(p) == \A i \in OwnerCalls(p) : calls[p][i].done /\ calls[p][i].ok

ResolvedOwners(p) == [i \in OwnerCalls(p) |-> calls[p][i].ret]

\* parameters.owners.map(owner => walletClient.resolveAddress(owner)): all started at once
balanceOfBatch(p, prm) ==
    /\ Enter(p, "balanceOfBatch", prm,
             [i \in 1..Len(prm.owners) |-> Call("resolveAddress", <<prm.owners[i]>>)])
    /\ pc' = [pc EXCEPT ![p] = "all"]

\* one resolution completes, in any order; the first rejection rejects Promise.all,
\* and an answer that comes after the body has left the await changes nothing
balanceOfBatch_owner(p, i, ans) ==
    /\ op[p] = "balanceOfBatch"
    /\ pc[p] \in {"all", "read", "done"}
    /\ i \in OwnerCalls(p)
    /\ ~calls[p][i].done
    /\ calls' = [calls EXCEPT ![p][i] = Answered(@, ans)]
    /\ IF pc[p] = "all" /\ ~ans.ok
       THEN /\ result' = [result EXCEPT ![p] = BatchFailed(ans.ret)]
            /\ pc' = [pc EXCEPT ![p] = "done"]
       ELSE UNCHANGED <<result, pc>>
    /\ UNCHANGED <<ctorArg, tokens, wallet, op, params>>

\* the await of Promise.all resumes and the one read is issued
balanceOfBatch_all(p) ==
    /\ At(p, "balanceOfBatch", "all")
    /\ AllResolved(p)
    /\ calls' = [calls EXCEPT ![p] =
                    Append(@, Call("read", [address |-> params[p].tokenAddress,
                                            functionName |-> "balanceOfBatch",
                                            args |-> <<ResolvedOwners(p), params[p].ids>>]))]
    /\ pc' = [pc EXCEPT ![p] = "read"]
    /\ UNCHANGED <<ctorArg, tokens, wallet, op, params, result>>

\* variant: the raw values are returned unconverted
Balances_Raw(value) == value

\* (rawBalances.value as any[]).map(balance => Number(balance))
Balances(value) == [k \in DOMAIN value |-> Number(value[k])]

balanceOfBatch_read(p, ans) ==
    /\ At(p, "balanceOfBatch", "read")
    /\ IF ans.ok
       THEN Finish(p, ans, Returned(Balances(ans.ret.value)))
       ELSE Finish(p, ans, BatchFailed(ans.ret))

----------------------------------------------------------------------------
(* safeTransferFrom, safeBatchTransferFrom *)

SafeTransferFromParams(I) ==
    [tokenAddress : TokenAddresses, from : I.names, to : I.names,
     id : I.ids, value : Amounts, data : I.data]

SafeBatchTransferFromParams(I) ==
    [tokenAddress : TokenAddresses, from : I.names, to : I.names,
     ids : SeqsUpTo(I.batchIds, I.batch), values : SeqsUpTo(Amounts, I.batch), data : I.data]

\* variant: the catch rethrows the error it caught
TransferFailed_Rethrow(error) == Thrown(<<error>>)

TransferFailed(error) == Wrap("Failed to transfer: ", error)
BatchTransferFailed(error) == Wrap("Failed to batch transfer: ", error)

\* variant: parameters.data || "0x"
DataOrDefault_Falsy(data) == IF data.given /\ data.v # "" THEN data.v ELSE "0x"

\* parameters.data ?? "0x"
DataOrDefault(data) == IF data.given THEN data.v ELSE "0x"

\* the local `from`: what the first resolveAddress call returned
ResolvedFrom(p) == calls[p][1].ret

TransferArgs(p, to) ==
    <<ResolvedFrom(p), to, params[p].id, params[p].value, DataOrDefault(params[p].data)>>

BatchTransferArgs(p, to) ==
    <<ResolvedFrom(p), to, params[p].ids, params[p].values, DataOrDefault(params[p].data)>>

safeTransferFrom(p, prm) ==
    /\ Enter(p, "safeTransferFrom", prm, << Call("resolveAddress", <<prm.from>>) >>)
    /\ pc' = [pc EXCEPT ![p] = "from"]

safeTransferFrom_from(p, ans) ==
    /\ At(p, "safeTransferFrom", "from")
    /\ IF ans.ok
       THEN Proceed(p, ans, Call("resolveAddress", <<params[p].to>>), "to")
       ELSE Finish(p, ans, TransferFailed(ans.ret))

safeTransferFrom_to(p, ans) ==
    /\ At(p, "safeTransferFrom", "to")
    /\ IF ans.ok
       THEN Proceed(p, ans,
                    Call("sendTransaction", [to |-> params[p].tokenAddress,
                                             functionName |-> "safeTransferFrom",
                                             args |-> TransferArgs(p, ans.ret)]),
                    "send")
       ELSE Finish(p, ans, TransferFailed(ans.ret))

safeTransferFrom_send(p, ans) ==
    /\ At(p, "safeTransferFrom", "send")
    /\ IF ans.ok
       THEN Finish(p, ans, Returned(ans.ret.hash))
       ELSE Finish(p, ans, TransferFailed(ans.ret))

safeBatchTransferFrom(p, prm) ==
    /\ Enter(p, "safeBatchTransferFrom", prm, << Call("resolveAddress", <<prm.from>>) >>)
    /\ pc' = [pc EXCEPT ![p] = "from"]

safeBatchTransferFrom_from(p, ans) ==
    /\ At(p, "safeBatchTransferFrom", "from")
    /\ IF ans.ok
       THEN Proceed(p, ans, Call("resolveAddress", <<params[p].to>>), "to")
       ELSE Finish(p, ans, BatchTransferFailed(ans.ret))

safeBatchTransferFrom_to(p, ans) ==
    /\ At(p, "safeBatchTransferFrom", "to")
    /\ IF ans.ok
       THEN Proceed(p, ans,
                    Call("sendTransaction", [to |-> params[p].tokenAddress,
                                             functionName |-> "safeBatchTransferFrom",
                                             args |-> BatchTransferArgs(p, ans.ret)]),
                    "send")
       ELSE Finish(p, ans, BatchTransferFailed(ans.ret))

safeBatchTransferFrom_send(p, ans) ==
    /\ At(p, "safeBatchTransferFrom", "send")
    /\ IF ans.ok
       THEN Finish(p, ans, Returned(ans.ret.hash))
       ELSE Finish(p, ans, BatchTransferFailed(ans.ret))

----------------------------------------------------------------------------
(* setApprovalForAll *)

SetApprovalForAllParams(I) ==
    [tokenAddress : TokenAddresses, operator : I.names, approved : BOOLEAN]

ApprovalFailed(error) == Wrap("Failed to set approval: ", error)

setApprovalForAll(p, prm) ==
    /\ Enter(p, "setApprovalForAll", prm, << Call("resolveAddress", <<prm.operator>>) >>)
    /\ pc' = [pc EXCEPT ![p] = "operator"]

setApprovalForAll_operator(p, ans) ==
    /\ At(p, "setApprovalForAll", "operator")
    /\ IF ans.ok
       THEN Proceed(p, ans,
                    Call("sendTransaction", [to |-> params[p].tokenAddress,
                                             functionName |-> "setApprovalForAll",
                                             args |-> <<ans.ret, params[p].approved>>]),
                    "send")
       ELSE Finish(p, ans, ApprovalFailed(ans.ret))

setApprovalForAll_send(p, ans) ==
    /\ At(p, "setApprovalForAll", "send")
    /\ IF ans.ok
       THEN Finish(p, ans, Returned(ans.ret.hash))
       ELSE Finish(p, ans, ApprovalFailed(ans.ret))

----------------------------------------------------------------------------
(* isApprovedForAll *)

IsApprovedForAllParams(I) ==
    [tokenAddress : TokenAddresses, owner : I.names, operator : I.names]

\* the catch of isApprovedForAll throws with the message of balanceOf
IsApprovedFailed(error) == Wrap("Failed to fetch balance: ", error)

\* return approved: the object read() resolved to
ApprovedResult(approved) == approved

isApprovedForAll(p, prm) ==
    /\ Enter(p, "isApprovedForAll", prm, << Call("resolveAddress", <<prm.owner>>) >>)
    /\ pc' = [pc EXCEPT ![p] = "owner"]

isApprovedForAll_owner(p, ans) ==
    /\ At(p, "isApprovedForAll", "owner")
    /\ IF ans.ok
       THEN Proceed(p, ans, Call("resolveAddress", <<params[p].operator>>), "operator")
       ELSE Finish(p, ans, IsApprovedFailed(ans.ret))

isApprovedForAll_operator(p, ans) ==
    /\ At(p, "isApprovedForAll", "operator")
    /\ IF ans.ok
       THEN Proceed(p, ans,
                    Call("read", [address |-> params[p].tokenAddress,
                                  functionName |-> "isApprovedForAll",
                                  args |-> <<calls[p][1].ret, ans.ret>>]),
                    "read")
       ELSE Finish(p, ans, IsApprovedFailed(ans.ret))

isApprovedForAll_read(p, ans) ==
    /\ At(p, "isApprovedForAll", "read")
    /\ IF ans.ok
       THEN Finish(p, ans, Returned(ApprovedResult(ans.ret)))
       ELSE Finish(p, ans, IsApprovedFailed(ans.ret))

----------------------------------------------------------------------------
(* Specifications *)

InitProcs ==
    /\ pc = [p \in Procs |-> "idle"]
    /\ op = [p \in Procs |-> "none"]
    /\ params = [p \in Procs |-> [symbol |-> <<>>]]
    /\ calls = [p \in Procs |-> <<>>]
    /\ result = [p \in Procs |-> NoResult]

CtorArgs(regs) ==
    { [given |-> TRUE, tokens |-> r] : r \in regs } \cup { [given |-> FALSE, tokens |-> <<>>] }

\* the registry is what is examined: every token list, one invocation at a time
InitLookup ==
    /\ ctorArg \in CtorArgs(Registries)
    /\ tokens = Construct(ctorArg)
    /\ wallet \in ChainOutcomes
    /\ InitProcs

NextLookup ==
    \/ \E s \in RequestedSymbols : getTokenInfoBySymbol("p1", s)
    \/ Settle("p1")

SpecLookup == InitLookup /\ [][NextLookup]_vars

\* the inputs and wallet answers an invocation draws from
FullInputs ==
    [names |-> Names, ids |-> TokenIds, batchIds |-> {1}, data |-> DataOptions,
     addresses |-> Addresses, raw |-> RawValues, errors |-> WalletErrors,
     batch |-> MaxBatch, read |-> MaxRead, symbols |-> RequestedSymbols]

Step(p, I) ==
    \/ \E s \in I.symbols : getTokenInfoBySymbol(p, s)
    \/ \E prm \in BalanceOfParams(I) : balanceOf(p, prm)
    \/ \E ans \in ResolveAnswers(I) : balanceOf_owner(p, ans)
    \/ \E ans \in BalanceAnswers(I) : balanceOf_read(p, ans)
    \/ \E prm \in BalanceOfBatchParams(I) : balanceOfBatch(p, prm)
    \/ \E i \in 1..I.batch, ans \in ResolveAnswers(I) : balanceOfBatch_owner(p, i, ans)
    \/ balanceOfBatch_all(p)
    \/ \E ans \in BatchAnswers(I) : balanceOfBatch_read(p, ans)
    \/ \E prm \in SafeTransferFromParams(I) : safeTransferFrom(p, prm)
    \/ \E ans \in ResolveAnswers(I) : safeTransferFrom_from(p, ans)
    \/ \E ans \in ResolveAnswers(I) : safeTransferFrom_to(p, ans)
    \/ \E ans \in SendAnswers(I) : safeTransferFrom_send(p, ans)
    \/ \E prm \in SafeBatchTransferFromParams(I) : safeBatchTransferFrom(p, prm)
    \/ \E ans \in ResolveAnswers(I) : safeBatchTransferFrom_from(p, ans)
    \/ \E ans \in ResolveAnswers(I) : safeBatchTransferFrom_to(p, ans)
    \/ \E ans \in SendAnswers(I) : safeBatchTransferFrom_send(p, ans)
    \/ \E prm \in SetApprovalForAllParams(I) : setApprovalForAll(p, prm)
    \/ \E ans \in ResolveAnswers(I) : setApprovalForAll_operator(p, ans)
    \/ \E ans \in SendAnswers(I) : setApprovalForAll_send(p, ans)
    \/ \E prm \in IsApprovedForAllParams(I) : isApprovedForAll(p, prm)
    \/ \E ans \in ResolveAnswers(I) : isApprovedForAll_owner(p, ans)
    \/ \E ans \in ResolveAnswers(I) : isApprovedForAll_operator(p, ans)
    \/ \E ans \in ApprovedAnswers(I) : isApprovedForAll_read(p, ans)
    \/ Settle(p)

\* one invocation at a time, of any operation with any parameters
Init ==
    /\ ctorArg \in CtorArgs(ExampleRegistries)
    /\ tokens = Construct(ctorArg)
    /\ wallet \in ChainOutcomes
    /\ InitProcs

Next == Step("p1", FullInputs)

Spec == Init /\ [][Next]_vars

\* two invocations in flight at once, over the smallest inputs
ConcInputs ==
    [names |-> {"alice.eth"}, ids |-> {1}, batchIds |-> {1}, data |-> {NoData},
     addresses |-> {"0xA11CE"}, raw |-> {[type |-> "bigint", n |-> 5]},
     errors |-> {"Error: rpc unavailable"},
     batch |-> ConcBatch, read |-> ConcBatch, symbols |-> {<<"g", "g">>}]

NextConc == \E p \in Procs : Step(p, ConcInputs)

SpecConc == Init /\ [][NextConc]_vars

----------------------------------------------------------------------------
(* What the claims are stated over *)

LookupDone(p) == pc[p] = "done" /\ op[p] = "getTokenInfoBySymbol"

EqualIgnoringCase(a, b) == toLowerCase(a) = toLowerCase(b)

\* the request is the descriptor's symbol as written, or that symbol in lower case
ExactOrLower(t, sym) == sym = t.symbol \/ sym = toLowerCase(t.symbol)

\* getChain() returns a chain and the descriptor has a non-empty address for it
HasAddress(t) ==
    /\ wallet.ok
    /\ wallet.id \in DOMAIN t.chains
    /\ t.chains[wallet.id].contractAddress # ""

InfoFields == { "symbol", "contractAddress", "id", "decimals", "name", "uri", "totalSupply" }

\* the descriptor's fields without its chain map, with the address for the wallet's chain
ExpectedInfo(t) ==
    [ f \in InfoFields |->
        IF f = "contractAddress" THEN t.chains[wallet.id].contractAddress ELSE t[f] ]

ReturnsDescriptor(r, t) ==
    /\ r.ok
    /\ DOMAIN r.value = InfoFields
    /\ \A f \in InfoFields : r.value[f] = ExpectedInfo(t)[f]

IsNotFound(r) == ~r.ok /\ Len(r.error) = 3 /\ r.error[3] = " not found"
IsNotOnChain(r) == ~r.ok /\ Len(r.error) = 4 /\ r.error[3] = " not found on chain "
IsRawWalletError(r) == ~r.ok /\ Len(r.error) = 1 /\ r.error[1] \in WalletErrors

\* two lookups resolve alike: the same returned descriptor, or the same kind of failure
SameResolution(r1, r2) ==
    /\ r1.ok = r2.ok
    /\ r1.ok => r1.value = r2.value
    /\ ~r1.ok => /\ Len(r1.error) = Len(r2.error)
                 /\ Len(r1.error) = 1 => r1.error = r2.error

----------------------------------------------------------------------------
(* C1 *)

\* C1, as stated: whenever the requested string equals a registered descriptor's
\* symbol with letter case ignored and that descriptor has a contract address
\* for the current chain, the lookup succeeds and returns that descriptor.
C1_AsStated ==
    \A p \in Procs : LookupDone(p) =>
        \A i \in DOMAIN tokens :
            (EqualIgnoringCase(params[p].symbol, tokens[i].symbol) /\ HasAddress(tokens[i]))
                => ReturnsDescriptor(result[p], tokens[i])

\* C1, amended: a descriptor matches only a request that is its symbol exactly
\* or its symbol in lower case.  If no descriptor matches in that sense (for
\* instance "Gg" asked of a registered "GG", or "GG" of a registered "gg") the
\* lookup fails with not-found; otherwise, when the first matching descriptor
\* in list order has a contract address for the chain getChain() returns, the
\* lookup succeeds and returns that first matching descriptor.
C1_ExactOrLowerMatch ==
    \A p \in Procs : LookupDone(p) =>
        LET sym == params[p].symbol IN
        /\ (\A i \in DOMAIN tokens : ~ExactOrLower(tokens[i], sym)) => IsNotFound(result[p])
        /\ \A i \in DOMAIN tokens :
            ( /\ ExactOrLower(tokens[i], sym)
              /\ \A j \in 1..(i - 1) : ~ExactOrLower(tokens[j], sym)
              /\ HasAddress(tokens[i]) )
                => ReturnsDescriptor(result[p], tokens[i])

\* C1 witness: a lower-case request found a descriptor registered in upper case
C1_Witness ==
    /\ LookupDone("p1")
    /\ params["p1"].symbol = <<"g", "g">>
    /\ result["p1"].ok
    /\ result["p1"].value.symbol = <<"G", "G">>

----------------------------------------------------------------------------
(* C2 *)

\* C2, as stated: for every registered descriptor D, in any registry, the
\* lookup of D's exact symbol and the lookup of its lower-case form resolve to
\* the same descriptor on the same chain.
C2_AsStated ==
    \A p \in Procs : LookupDone(p) =>
        ( (\E i \in DOMAIN tokens : tokens[i].symbol = params[p].symbol)
            => SameResolution(result[p],
                              LookupResult(tokens, toLowerCase(params[p].symbol), wallet)) )

\* a descriptor whose symbol differs from sym only by case comes before every
\* descriptor that carries sym itself
CaseVariantFirst(sym) ==
    \E j \in DOMAIN tokens :
        /\ tokens[j].symbol # sym
        /\ EqualIgnoringCase(tokens[j].symbol, sym)
        /\ \A k \in 1..j : tokens[k].symbol # sym

\* C2, amended: the exact symbol of a registered descriptor and its lower-case
\* form resolve to the same descriptor, on the same chain, unless the symbol
\* is not already lower case and a descriptor whose symbol differs from it
\* only by case is listed before every descriptor carrying the symbol itself.
C2_SameUnlessCaseVariantFirst ==
    \A p \in Procs : LookupDone(p) =>
        LET sym == params[p].symbol IN
        ( ( /\ \E i \in DOMAIN tokens : tokens[i].symbol = sym
            /\ ~(sym # toLowerCase(sym) /\ CaseVariantFirst(sym)) )
            => SameResolution(result[p], LookupResult(tokens, toLowerCase(sym), wallet)) )

\* C2 witness: an upper-case symbol was looked up in a registry that also
\* lists its lower-case variant, after it, and the lookup returned
C2_Witness ==
    /\ LookupDone("p1")
    /\ params["p1"].symbol = <<"G", "G">>
    /\ Len(tokens) = 2
    /\ tokens[1].symbol = <<"G", "G">>
    /\ tokens[2].symbol = <<"g", "g">>
    /\ HasAddress(tokens[1])
    /\ HasAddress(tokens[2])
    /\ result["p1"].ok

----------------------------------------------------------------------------
(* C3 *)

Matched(sym) == \E i \in DOMAIN tokens : ExactOrLower(tokens[i], sym)

FirstMatch(sym) ==
    CHOOSE i \in DOMAIN tokens :
        ExactOrLower(tokens[i], sym) /\ \A j \in 1..(i - 1) : ~ExactOrLower(tokens[j], sym)

NoAddressOnChain(t) ==
    \/ wallet.id \notin DOMAIN t.chains
    \/ t.chains[wallet.id].contractAddress = ""

\* C3, as stated: not-found exactly when no descriptor matches, whatever the
\* chain; unsupported-chain exactly when a descriptor matches but has no (or
\* an empty) address for the id getChain() returns; success in every other case.
C3_AsStated ==
    \A p \in Procs : LookupDone(p) =>
        LET sym == params[p].symbol
            r == result[p]
            unsupported == Matched(sym) /\ wallet.ok /\ NoAddressOnChain(tokens[FirstMatch(sym)])
        IN
        /\ IsNotFound(r) <=> ~Matched(sym)
        /\ IsNotOnChain(r) <=> unsupported
        /\ (Matched(sym) /\ ~unsupported) => r.ok

\* C3, amended: as stated, except that success in every other case needs
\* getChain() to return; when a descriptor matches and getChain() throws, the
\* lookup fails with the wallet client's own error, unwrapped.
C3_Classification ==
    \A p \in Procs : LookupDone(p) =>
        LET sym == params[p].symbol
            r == result[p]
            unsupported == Matched(sym) /\ wallet.ok /\ NoAddressOnChain(tokens[FirstMatch(sym)])
        IN
        /\ IsNotFound(r) <=> ~Matched(sym)
        /\ ~Matched(sym) => Len(calls[p]) = 0
        /\ IsNotOnChain(r) <=> unsupported
        /\ (Matched(sym) /\ ~unsupported /\ wallet.ok) => r.ok
        /\ (Matched(sym) /\ ~wallet.ok) => r = Thrown(<<wallet.err>>)

\* C3 witness: a descriptor matched whose address for the wallet's chain is
\* the empty string, and the lookup failed with unsupported-chain
C3_Witness ==
    /\ LookupDone("p1")
    /\ IsNotOnChain(result["p1"])
    /\ Matched(params["p1"].symbol)
    /\ wallet.id \in DOMAIN tokens[FirstMatch(params["p1"].symbol)].chains

----------------------------------------------------------------------------
(* C4 *)

\* C4, as stated: for every descriptor D of the registry with a contract
\* address for the current chain, at any position and whatever else the
\* registry holds, the lookup of D's symbol returns exactly D's fields with
\* D's address for the chain and without the chain map.
C4_AsStated ==
    \A p \in Procs : LookupDone(p) =>
        \A i \in DOMAIN tokens :
            (tokens[i].symbol = params[p].symbol /\ HasAddress(tokens[i]))
                => ReturnsDescriptor(result[p], tokens[i])

\* C4, amended: the round trip holds for a descriptor D, with a contract
\* address for the chain getChain() returns, that no earlier descriptor of the
\* list shadows: no descriptor listed before D has D's symbol, or a symbol
\* whose lower-case form is D's symbol.
C4_RoundTripUnshadowed ==
    \A p \in Procs : LookupDone(p) =>
        \A i \in DOMAIN tokens :
            ( /\ tokens[i].symbol = params[p].symbol
              /\ HasAddress(tokens[i])
              /\ \A j \in 1..(i - 1) : ~ExactOrLower(tokens[j], tokens[i].symbol) )
                => ReturnsDescriptor(result[p], tokens[i])

\* C4 witness: the descriptor looked up is second in the list, behind a
\* descriptor registered under another symbol, and the lookup returned it
C4_Witness ==
    /\ LookupDone("p1")
    /\ Len(tokens) = 2
    /\ tokens[1].symbol = <<"S", "S">>
    /\ tokens[2].symbol = params["p1"].symbol
    /\ tokens[2].id # tokens[1].id
    /\ result["p1"].ok
    /\ result["p1"].value.id = tokens[2].id

----------------------------------------------------------------------------
(* C5 *)

Done(p, o) == pc[p] = "done" /\ op[p] = o

SixOperations ==
    { "balanceOf", "balanceOfBatch", "isApprovedForAll",
      "safeTransferFrom", "safeBatchTransferFrom", "setApprovalForAll" }

FailedCalls(p) == { k \in DOMAIN calls[p] : calls[p][k].done /\ ~calls[p][k].ok }

\* the taxonomy error a message prefix stands for
ErrorClass(prefix) ==
    CASE prefix \in {"Failed to fetch balance: ", "Failed to fetch batch balances: "} -> "QueryError"
      [] prefix \in {"Failed to transfer: ", "Failed to batch transfer: "} -> "TransferError"
      [] prefix = "Failed to set approval: " -> "ApprovalError"
      [] prefix = "Token with symbol " -> "LookupError"
      [] OTHER -> "raw"

\* the taxonomy error each operation is to fail with
ClassOf(o) ==
    CASE o \in {"balanceOf", "balanceOfBatch", "isApprovedForAll"} -> "QueryError"
      [] o \in {"safeTransferFrom", "safeBatchTransferFrom"} -> "TransferError"
      [] o = "setApprovalForAll" -> "ApprovalError"
      [] OTHER -> "LookupError"

\* the operation failed with its own error, whose message ends in a failed call's error
FailedWrapped(p) ==
    /\ pc[p] = "done"
    /\ ~result[p].ok
    /\ Len(result[p].error) >= 2
    /\ ErrorClass(result[p].error[1]) = ClassOf(op[p])
    /\ \E k \in FailedCalls(p) : result[p].error[Len(result[p].error)] = calls[p][k].ret

\* C5, as stated: in each of the seven operations, whenever a wallet-client
\* call (getChain, resolveAddress, read, sendTransaction) has failed, the
\* operation fails with its own wrapped error embedding the original error,
\* and the raw wallet-client error never escapes.
C5_AsStated ==
    \A p \in Procs : (op[p] # "none" /\ FailedCalls(p) # {}) => FailedWrapped(p)

\* C5, amended: in each of the six operations other than getTokenInfoBySymbol,
\* whenever a wallet-client call has failed the operation fails with its own
\* wrapped error (QueryError for balanceOf, balanceOfBatch and
\* isApprovedForAll, TransferError for the two transfers, ApprovalError for
\* setApprovalForAll) embedding the original error; getTokenInfoBySymbol has
\* no catch, and a failure of getChain() escapes it as the raw error.
C5_SixOperationsWrap ==
    \A p \in Procs :
        /\ (op[p] \in SixOperations /\ FailedCalls(p) # {}) => FailedWrapped(p)
        /\ (op[p] = "getTokenInfoBySymbol" /\ FailedCalls(p) # {})
              => /\ pc[p] = "done"
                 /\ result[p] = Thrown(<<calls[p][1].ret>>)

\* C5 witness: sendTransaction threw and safeTransferFrom failed with the
\* transfer error carrying the original message
C5_Witness ==
    /\ Done("p1", "safeTransferFrom")
    /\ Len(calls["p1"]) = 3
    /\ calls["p1"][3].done
    /\ ~calls["p1"][3].ok
    /\ result["p1"].error = <<"Failed to transfer: ", calls["p1"][3].ret>>

----------------------------------------------------------------------------
(* C6 *)

\* C6: when both resolutions and the read succeed, isApprovedForAll returns
\* exactly the boolean carried in the value field of the read's answer.
C6_ReturnsBoolean ==
    \A p \in Procs : (Done(p, "isApprovedForAll") /\ result[p].ok) =>
        /\ result[p].value.type = "boolean"
        /\ result[p].value = calls[p][3].ret.value

----------------------------------------------------------------------------
(* C7 *)

BatchReturned(p) == Done(p, "balanceOfBatch") /\ result[p].ok

\* C7, as stated: on every successful call the output is as long as the
\* owners array and as the ids array, also when those differ in length or the
\* read answers with a sequence of another length.
C7_AsStated ==
    \A p \in Procs : BatchReturned(p) =>
        /\ Len(result[p].value) = Len(params[p].owners)
        /\ Len(result[p].value) = Len(params[p].ids)

\* C7, amended: on every successful call the output is as long as the
\* sequence the wallet client's read answered with, and output element i is
\* the number for element i of that sequence; the code compares no lengths,
\* so the output is as long as owners and ids only when the read's answer is.
C7_OutputFollowsRead ==
    \A p \in Procs : BatchReturned(p) =>
        LET n == Len(params[p].owners)
            raw == calls[p][n + 1].ret.value
        IN
        /\ Len(calls[p]) = n + 1
        /\ Len(result[p].value) = Len(raw)
        /\ \A k \in 1..Len(raw) : result[p].value[k] = [type |-> "number", n |-> raw[k].n]

\* C7 witness: a call returned an output longer than its owners array
C7_Witness ==
    /\ BatchReturned("p1")
    /\ Len(params["p1"].owners) = 1
    /\ Len(params["p1"].ids) = 0
    /\ Len(result["p1"].value) = 2

----------------------------------------------------------------------------
(* C8 *)

\* C8: in balanceOfBatch every owner's resolution is started at once; under
\* every order of their completions the one read is issued only after all of
\* them completed successfully, with the resolved addresses in the order of
\* the input owners; once a resolution has failed no read is ever issued and
\* the operation fails with QueryError.
C8_JoinBeforeRead ==
    \A p \in Procs : op[p] = "balanceOfBatch" =>
        LET n == Len(params[p].owners)
            cs == calls[p]
        IN
        /\ Len(cs) \in {n, n + 1}
        /\ \A i \in 1..n : cs[i].fn = "resolveAddress" /\ cs[i].args = <<params[p].owners[i]>>
        /\ Len(cs) = n + 1 =>
              /\ cs[n + 1].fn = "read"
              /\ cs[n + 1].args.functionName = "balanceOfBatch"
              /\ \A i \in 1..n : cs[i].done /\ cs[i].ok
              /\ Len(cs[n + 1].args.args[1]) = n
              /\ \A i \in 1..n : cs[n + 1].args.args[1][i] = cs[i].ret
              /\ cs[n + 1].args.args[2] = params[p].ids
        /\ (\E i \in 1..n : cs[i].done /\ ~cs[i].ok) =>
              /\ Len(cs) = n
              /\ pc[p] = "done"
              /\ ~result[p].ok
              /\ Len(result[p].error) = 2
              /\ ErrorClass(result[p].error[1]) = "QueryError"

\* C8 witness: two owners resolved to different addresses and the read was
\* issued with both
C8_Witness ==
    /\ At("p1", "balanceOfBatch", "read")
    /\ Len(params["p1"].owners) = 2
    /\ calls["p1"][1].ret # calls["p1"][2].ret
    /\ Len(calls["p1"]) = 3

----------------------------------------------------------------------------
(* C9 *)

Transfers == { "safeTransferFrom", "safeBatchTransferFrom" }

\* the data argument the claim gives: "0x" when the caller gave none
ExpectedData(data) == IF data.given THEN data.v ELSE "0x"

\* C9: sendTransaction is called only after resolveAddress(from) and then
\* resolveAddress(to) both succeeded, with args [resolved from, resolved to,
\* id(s), value(s), data], data being "0x" when the caller gave none and the
\* caller's data otherwise; on success the operation returns the hash field
\* of sendTransaction's result; if either resolution fails nothing is sent.
C9_SendAfterBothResolved ==
    \A p \in Procs : op[p] \in Transfers =>
        LET cs == calls[p]
            batch == op[p] = "safeBatchTransferFrom"
        IN
        /\ Len(cs) \in 1..3
        /\ cs[1].fn = "resolveAddress" /\ cs[1].args = <<params[p].from>>
        /\ Len(cs) >= 2 =>
              /\ cs[1].done /\ cs[1].ok
              /\ cs[2].fn = "resolveAddress" /\ cs[2].args = <<params[p].to>>
        /\ Len(cs) = 3 =>
              /\ cs[2].done /\ cs[2].ok
              /\ cs[3].fn = "sendTransaction"
              /\ cs[3].args.to = params[p].tokenAddress
              /\ cs[3].args.functionName = op[p]
              /\ Len(cs[3].args.args) = 5
              /\ cs[3].args.args[1] = cs[1].ret
              /\ cs[3].args.args[2] = cs[2].ret
              /\ cs[3].args.args[3] = (IF batch THEN params[p].ids ELSE params[p].id)
              /\ cs[3].args.args[4] = (IF batch THEN params[p].values ELSE params[p].value)
              /\ cs[3].args.args[5] = ExpectedData(params[p].data)
        /\ (pc[p] = "done" /\ result[p].ok) =>
              /\ Len(cs) = 3
              /\ cs[3].done /\ cs[3].ok
              /\ result[p].value = cs[3].ret.hash
        /\ (\E k \in {1, 2} : k <= Len(cs) /\ cs[k].done /\ ~cs[k].ok) => Len(cs) < 3

\* C9 witness: a transfer whose caller gave the empty byte string as data
\* was sent with that data and returned the hash
C9_Witness ==
    /\ Done("p1", "safeTransferFrom")
    /\ result["p1"].ok
    /\ params["p1"].data = [given |-> TRUE, v |-> ""]
    /\ params["p1"].from # params["p1"].to
    /\ calls["p1"][3].args.args[5] = ""

----------------------------------------------------------------------------
(* C10 *)

ReadsAndSends(p) == { k \in DOMAIN calls[p] : calls[p][k].fn \in {"read", "sendTransaction"} }

C10_State ==
    /\ tokens = Construct(ctorArg)
    /\ \A p \in Procs : op[p] \in SixOperations =>
          /\ Cardinality(ReadsAndSends(p)) <= 1
          /\ pc[p] = "done" => (result[p].ok \/ Len(result[p].error) > 0)
          /\ pc[p] # "done" => result[p] = NoResult
          /\ (pc[p] = "done" /\ ~result[p].ok) => FailedCalls(p) # {}

C10_Step ==
    /\ tokens' = tokens
    /\ \A p \in Procs : FailedCalls(p) # {} => Len(calls'[p]) <= Len(calls[p])

\* C10: every invocation of the six wallet operations issues at most one read
\* or sendTransaction, issues no wallet-client call once one of its calls has
\* failed, and ends in a returned result or in a failure; the token list stays
\* what the constructor was given under every interleaving of invocations.
C10_NoRetryNoSharedState == [](C10_State) /\ [][C10_Step]_vars

\* C10 witness: one invocation has failed on its first call while another,
\* started meanwhile, has its read in flight
C10_Witness ==
    /\ pc["p1"] = "done"
    /\ op["p1"] = "safeTransferFrom"
    /\ ~result["p1"].ok
    /\ Len(calls["p1"]) = 1
    /\ At("p2", "balanceOfBatch", "read")

====
